---- MODULE Spec2Model ----
(***************************************************************************)
(* A model of src/trading_bot.py: the BasicBot class (clock               *)
(* synchronisation, instrument validation, order submission with retry,   *)
(* position closing) and the two flows of main().                         *)
(*                                                                         *)
(* Decimal numbers (quantities, lot-size bounds, position amounts) are    *)
(* integers counting units of 1/Scale.  Python floats are IEEE-754        *)
(* binary64 values; the operators of the "binary64" section compute the   *)
(* correctly rounded results the interpreter computes.                    *)
(***************************************************************************)
EXTENDS Integers, Sequences, FiniteSets, TLC

(***************************************************************************)
(* Bounds of the model.                                                   *)
(***************************************************************************)
\* number of fractional decimal digits of the decimal inputs
DecimalDigits == 1
\* decimal inputs count units of 1/Scale
Scale == 10 ^ DecimalDigits

(***************************************************************************)
(* binary64.  A 53-bit significand does not fit the 32-bit integers of    *)
(* TLC, so a natural number below 2^54 is a pair of limbs                 *)
(* [hi, lo] = hi * Base + lo.                                              *)
(***************************************************************************)
Base == 2 ^ 27

BigOf(n) == [hi |-> n \div Base, lo |-> n % Base]

BigGE(a, b) == a.hi > b.hi \/ (a.hi = b.hi /\ a.lo >= b.lo)

BigSub(a, b) ==
  IF a.lo >= b.lo
    THEN [hi |-> a.hi - b.hi, lo |-> a.lo - b.lo]
    ELSE [hi |-> a.hi - b.hi - 1, lo |-> a.lo + Base - b.lo]

BigDouble(a) ==
  [hi |-> 2 * a.hi + (2 * a.lo) \div Base, lo |-> (2 * a.lo) % Base]

BigAddBit(a, bit) ==
  IF a.lo + bit = Base THEN [hi |-> a.hi + 1, lo |-> 0]
                       ELSE [hi |-> a.hi, lo |-> a.lo + bit]

\* A binary64 value is sig * 2^exp with 2^52 <= sig < 2^53, or zero.
Two52 == [hi |-> 2 ^ 25, lo |-> 0]
Two53 == [hi |-> 2 ^ 26, lo |-> 0]
DoubleZero == [sig |-> BigOf(0), exp |-> 0]
IsZero(x) == x.sig = BigOf(0)

\* One step of the long division of n by d (1 <= n/d < 2): r the running
\* remainder, m the significand bits so far, k the bits still to produce.
DivStep(st, d) ==
  LET r2  == BigDouble(st.r)
      bit == IF BigGE(r2, d) THEN 1 ELSE 0
  IN [r |-> IF bit = 1 THEN BigSub(r2, d) ELSE r2,
      m |-> BigAddBit(BigDouble(st.m), bit),
      k |-> st.k - 1]

RECURSIVE SigBits(_, _)
SigBits(st, d) == IF st.k = 0 THEN st ELSE SigBits(DivStep(st, d), d)

\* The binary64 nearest to (n/d) * 2^e, ties to even, for 1 <= n/d < 2.
RoundNearestEven(n, d, e) ==
  LET q    == SigBits([r |-> BigSub(n, d), m |-> BigOf(1), k |-> 52], d)
      r2   == BigDouble(q.r)
      up   == IF r2 = d THEN q.m.lo % 2 = 1 ELSE BigGE(r2, d)
      m    == IF up THEN BigAddBit(q.m, 1) ELSE q.m
  IN IF m = Two53 THEN [sig |-> Two52, exp |-> e - 51]
                  ELSE [sig |-> m, exp |-> e - 52]

\* The least j >= 0 with a * 2^j >= b (a > 0).
RECURSIVE ShiftUp(_, _)
ShiftUp(a, b) == IF a >= b THEN 0 ELSE 1 + ShiftUp(2 * a, b)

\* float("n/Scale"): the binary64 nearest to the decimal n / den.
ParseFloat(n, den) ==
  IF n = 0 THEN DoubleZero
  ELSE IF n >= den
    THEN LET j == ShiftUp(2 * den, n + 1) IN   \* den*2^j <= n < den*2^(j+1)
         RoundNearestEven(BigOf(n), BigOf(den * 2 ^ j), j)
    ELSE LET j == ShiftUp(n, den) IN           \* n*2^j >= den > n*2^(j-1)
         RoundNearestEven(BigOf(n * 2 ^ j), BigOf(den), -j)

\* x < y on non-negative binary64 values.
DoubleLess(x, y) ==
  IF IsZero(y) THEN FALSE
  ELSE IF IsZero(x) THEN TRUE
  ELSE x.exp < y.exp \/ (x.exp = y.exp /\ ~BigGE(x.sig, y.sig))

\* x / y, correctly rounded (y nonzero).
DoubleDiv(x, y) ==
  IF IsZero(x) THEN DoubleZero
  ELSE IF BigGE(x.sig, y.sig)
    THEN RoundNearestEven(x.sig, y.sig, x.exp - y.exp)
    ELSE RoundNearestEven(BigDouble(x.sig), y.sig, x.exp - y.exp - 1)

\* x % 1 != 0: x has a fractional part.
HasFraction(x) ==
  IF IsZero(x) \/ x.exp >= 0 THEN FALSE
  ELSE IF x.exp <= -53 THEN TRUE
  ELSE IF -x.exp <= 27 THEN x.sig.lo % (2 ^ (-x.exp)) # 0
  ELSE x.sig.lo # 0 \/ x.sig.hi % (2 ^ (-x.exp - 27)) # 0

(***************************************************************************)
(* Values of the program.                                                 *)
(***************************************************************************)
\* An optional value (None or a value) is a set of at most one element.
None == {}
Some(v) == {v}
The(opt) == CHOOSE v \in opt : TRUE

\* the error code of line 129: "Timestamp for this request is outside of
\* the recvWindow"
TIMESTAMP_ERROR == -1021
\* the default of the retries parameter (lines 106, 135, 166, 229)
DEFAULT_RETRIES == 3
\* time.sleep(1), in milliseconds of the local clock
SLEEP_MS == 1000

\* What a call of the bot yields: a returned value or a raised exception.
\* value is "None", "True", "False", "order" (an order response, whose
\* orderId is given) or, for main(), the outcome it prints.
Pending == [kind |-> "pending", value |-> "", orderId |-> 0]
Return(v) == [kind |-> "return", value |-> v, orderId |-> 0]
ReturnOrder(id) == [kind |-> "return", value |-> "order", orderId |-> id]
Raise(exc) == [kind |-> "raise", value |-> exc, orderId |-> 0]

(***************************************************************************)
(* The Gateway (the python-binance Client): what its calls can answer.    *)
(***************************************************************************)
Symbols == {"BTCUSDT", "ETHUSDT"}
Statuses == {"TRADING", "BREAK"}

\* The filters of a symbol: with a LOT_SIZE filter (minQty, maxQty and
\* stepSize are decimals counted in units of 1/Scale) or without one.
NoLotSize == [present |-> FALSE, minQty |-> 0, maxQty |-> 0, stepSize |-> 0]
LotSize(min, max, step) ==
  [present |-> TRUE, minQty |-> min, maxQty |-> max, stepSize |-> step]
LotSizes == {NoLotSize, LotSize(1, 10, 1), LotSize(3, 10, 2)}

Listings ==
  {[symbol |-> s, status |-> st, filters |-> f] :
     s \in Symbols, st \in Statuses, f \in LotSizes}

\* info['symbols'] of futures_exchange_info(), a list
ExchangeInfos(n) ==
  UNION {[1..k -> Listings] : k \in 0..n}

\* get_server_time(): the server's time minus the local time, or a failure
Skews == {1500}
TimeResponses ==
  {[kind |-> "error", skew |-> 0]} \cup {[kind |-> "ok", skew |-> s] : s \in Skews}

\* futures_exchange_info(): the listing, a BinanceAPIException (the API
\* rejects the request) or another exception (requests' ConnectionError
\* or Timeout, BinanceRequestException)
InfoResponses == {"ok", "BinanceAPIException", "RequestException"}

\* futures_position_information(): a list of positions, positionAmt a
\* signed decimal in units of 1/Scale
Amounts == {-25, 0, 5}
Positions == {[symbol |-> s, positionAmt |-> a] : s \in Symbols, a \in Amounts}
PositionLists == UNION {[1..k -> Positions] : k \in 0..2}
PositionResponses ==
  {[kind |-> "error", positions |-> <<>>]}
    \cup {[kind |-> "ok", positions |-> ps] : ps \in PositionLists}

\* futures_create_order(): the order is accepted, rejected with an error
\* code (BinanceAPIException) or the call fails otherwise
ApiErrorCodes == {TIMESTAMP_ERROR, -2019}
CreateResponses ==
  {[kind |-> "ok", code |-> 0], [kind |-> "RequestException", code |-> 0]}
    \cup {[kind |-> "BinanceAPIException", code |-> c] : c \in ApiErrorCodes}

(***************************************************************************)
(* Instrument Validator.                                                  *)
(***************************************************************************)
\* SymbolListed without the test of the status
RECURSIVE SymbolListedAnyStatus(_, _, _)
SymbolListedAnyStatus(symbols, i, symbol) ==
  IF i > Len(symbols) THEN FALSE
  ELSE IF symbols[i].symbol = symbol THEN TRUE
  ELSE SymbolListedAnyStatus(symbols, i + 1, symbol)

\* lines 68-71: the loop over info['symbols']
RECURSIVE SymbolListed(_, _, _)
SymbolListed(symbols, i, symbol) ==
  IF i > Len(symbols) THEN FALSE
  ELSE IF symbols[i].symbol = symbol /\ symbols[i].status = "TRADING" THEN TRUE
  ELSE SymbolListed(symbols, i + 1, symbol)

\* validate_symbol: only a BinanceAPIException is caught
validate_symbol(resp, info, symbol) ==
  CASE resp = "ok" ->
         Return(IF SymbolListed(info, 1, symbol) THEN "True" ELSE "False")
    [] resp = "BinanceAPIException" -> Return("False")
    [] OTHER -> Raise(resp)

\* lines 89-100: the checks against the LOT_SIZE filter; quantity is a float
\* and the filter's decimal strings are parsed by float()
LotSizeAccepts(lot_size, quantity) ==
  LET min_qty   == ParseFloat(lot_size.minQty, Scale)
      max_qty   == ParseFloat(lot_size.maxQty, Scale)
      step_size == ParseFloat(lot_size.stepSize, Scale)
  IN IF DoubleLess(quantity, min_qty) \/ DoubleLess(max_qty, quantity)
       THEN FALSE
     ELSE IF HasFraction(DoubleDiv(quantity, step_size)) THEN FALSE
     ELSE TRUE

\* lines 85-101: the loop over info['symbols']; the first entry of the
\* symbol decides, and filters['LOT_SIZE'] of an entry without that filter
\* raises KeyError
RECURSIVE QuantityListed(_, _, _, _)
QuantityListed(symbols, i, symbol, quantity) ==
  IF i > Len(symbols) THEN Return("False")
  ELSE IF symbols[i].symbol = symbol
    THEN IF ~symbols[i].filters.present THEN Raise("KeyError")
         ELSE Return(IF LotSizeAccepts(symbols[i].filters, quantity)
                       THEN "True" ELSE "False")
  ELSE QuantityListed(symbols, i + 1, symbol, quantity)

\* validate_quantity: only a BinanceAPIException is caught
validate_quantity(resp, info, symbol, quantity) ==
  CASE resp = "ok" -> QuantityListed(info, 1, symbol, quantity)
    [] resp = "BinanceAPIException" -> Return("False")
    [] OTHER -> Raise(resp)

(***************************************************************************)
(* Position Closer: the position lookup and the inference of side and     *)
(* quantity.                                                              *)
(***************************************************************************)
NoPosition == [symbol |-> "", positionAmt |-> 0]

\* FirstOpen without the test of the amount
RECURSIVE FirstOpenAnyAmount(_, _, _)
FirstOpenAnyAmount(positions, i, symbol) ==
  IF i > Len(positions) THEN NoPosition
  ELSE IF positions[i].symbol = symbol THEN positions[i]
  ELSE FirstOpenAnyAmount(positions, i + 1, symbol)

\* lines 267-270: the first position of the symbol with a nonzero amount
RECURSIVE FirstOpen(_, _, _)
FirstOpen(positions, i, symbol) ==
  IF i > Len(positions) THEN NoPosition
  ELSE IF positions[i].symbol = symbol /\ positions[i].positionAmt # 0
    THEN positions[i]
  ELSE FirstOpen(positions, i + 1, symbol)

\* get_position: every exception is caught and None returned
get_position(resp, symbol) ==
  IF resp.kind = "ok" THEN FirstOpen(resp.positions, 1, symbol) ELSE NoPosition

\* InferSide trading in the direction of the position
InferSideSameDirection(position) ==
  IF position.positionAmt > 0 THEN "BUY" ELSE "SELL"

\* line 246
InferSide(position) == IF position.positionAmt > 0 THEN "SELL" ELSE "BUY"

\* line 248
InferQuantity(position) ==
  IF position.positionAmt < 0 THEN -position.positionAmt
                              ELSE position.positionAmt

(***************************************************************************)
(* Order Executor: the decisions of the retry loop.                       *)
(***************************************************************************)
\* ShouldRetry giving up one attempt early
ShouldRetryOneLess(code, attempt, retries) ==
  code = TIMESTAMP_ERROR /\ attempt < retries - 2

\* ShouldRetry without the test of the error code
ShouldRetryAnyCode(code, attempt, retries) ==
  attempt < retries - 1

\* ShouldRetry counting one attempt too many
ShouldRetryOneMore(code, attempt, retries) ==
  code = TIMESTAMP_ERROR /\ attempt < retries

\* lines 129, 160, 193: attempt counts from 0
ShouldRetry(code, attempt, retries) ==
  code = TIMESTAMP_ERROR /\ attempt < retries - 1

\* AfterCreate without the return of line 127: the loop goes on after an
\* accepted order
AfterCreateNoReturn(resp, attempt, retries) ==
  CASE resp.kind = "ok" -> "sleep"
    [] resp.kind = "BinanceAPIException" ->
         IF resp.code = TIMESTAMP_ERROR /\ attempt < retries - 1
           THEN "sleep" ELSE "fail"
    [] OTHER -> "raise"

\* lines 126-133: what follows the Gateway's answer to futures_create_order:
\* "return" the order, "sleep" and continue, "fail" (return None), or
\* "raise" (an exception other than BinanceAPIException is not caught)
AfterCreate(resp, attempt, retries) ==
  CASE resp.kind = "ok" -> "return"
    [] resp.kind = "BinanceAPIException" ->
         IF ShouldRetry(resp.code, attempt, retries) THEN "sleep" ELSE "fail"
    [] OTHER -> "raise"

\* The keyword arguments of futures_create_order (lines 119-125, 149-156,
\* 181-189): only the market order passes a timestamp.
NoOrder ==
  [symbol |-> "", side |-> "", type |-> "", quantity |-> None, price |-> None,
   stopPrice |-> None, timeInForce |-> None, timestamp |-> None]

OrderRequest(type, symbol, side, quantity, price, stop_price, local_ms, offset) ==
  [symbol |-> symbol, side |-> side, type |-> type, quantity |-> quantity,
   price     |-> IF type = "MARKET" THEN None ELSE price,
   stopPrice |-> IF type = "STOP" THEN stop_price ELSE None,
   timeInForce |-> IF type = "MARKET" THEN None ELSE Some("GTC"),
   timestamp |-> IF type = "MARKET" THEN Some(local_ms + offset) ELSE None]

(***************************************************************************)
(* What the callers make of a result.                                     *)
(***************************************************************************)
\* ClosePositionResult without the handler of line 259
ClosePositionResultUncaught(result) == result

\* lines 259-261: close_position catches every exception and returns None
ClosePositionResult(result) ==
  IF result.kind = "raise" THEN Return("None") ELSE result

\* lines 358-364 and 388-404: main() prints the order, a failure, or the
\* exception it caught
MainResult(close, result) ==
  IF result.kind = "raise" THEN Return("error")
  ELSE IF result.value = "order"
    THEN [kind |-> "return", value |-> IF close THEN "closed" ELSE "placed",
          orderId |-> result.orderId]
  ELSE Return(IF close THEN "close_failed" ELSE "failed")

\* The result of the entry point fn, given the result of the place_*_order
\* call it ends with.
Outcome(fn, close, result) ==
  CASE fn = "close_position" -> ClosePositionResult(result)
    [] fn = "main" ->
         MainResult(close, IF close THEN ClosePositionResult(result) ELSE result)
    [] OTHER -> result

\* MainAccepts going on whatever the validation returned
MainAcceptsAnyReturn(valid) == valid.kind = "return"

\* lines 370 and 375: main() goes on only when the validation returned True
MainAccepts(valid) == valid = Return("True")

\* lines 240-257 of close_position: the function it delegates to, or the
\* ValueError it raises (and catches itself)
CloseDispatch(lookup, position, order_type, price) ==
  IF lookup /\ position = NoPosition THEN "ValueError"
  ELSE IF order_type = "MARKET" THEN "place_market_order"
  ELSE IF order_type = "LIMIT"
    THEN IF price = None THEN "ValueError" ELSE "place_limit_order"
  ELSE "ValueError"

\* sync_time leaving a nonzero offset when get_server_time fails
sync_timeFailureNonzero(resp) == IF resp.kind = "ok" THEN resp.skew ELSE 1

\* lines 52-58: the offset after sync_time
sync_time(resp) == IF resp.kind = "ok" THEN resp.skew ELSE 0

(***************************************************************************)
(* The calls checked: main() in its two flows and the methods of BasicBot *)
(* called directly.                                                       *)
(***************************************************************************)
\* the largest retries argument of a direct call
MaxRetries == 3
\* the largest quantity, in units of 1/Scale
MaxQuantity == 12

Retries == (0 - 1)..MaxRetries
Quantities == 0..MaxQuantity
Sides == {"BUY", "SELL"}
Prices == {None, Some(100)}
PlaceFns == {"place_market_order", "place_limit_order", "place_stop_limit_order"}

TypeOf(fn) ==
  CASE fn = "place_market_order" -> "MARKET"
    [] fn = "place_limit_order" -> "LIMIT"
    [] fn = "place_stop_limit_order" -> "STOP"

Call(fn, close, symbol, side, quantity, order_type, price, stop_price, retries) ==
  [fn |-> fn, close |-> close, symbol |-> symbol, side |-> side,
   quantity |-> quantity, order_type |-> order_type, price |-> price,
   stop_price |-> stop_price, retries |-> retries]

\* main() without --close: --market, --limit PRICE or --stop-limit PRICE STOP
MainOrderCalls ==
  {Call("main", FALSE, s, Some(sd), Some(q), t,
        IF t = "MARKET" THEN None ELSE Some(100),
        IF t = "STOP" THEN Some(90) ELSE None, DEFAULT_RETRIES) :
     s \in {"BTCUSDT"}, sd \in {"BUY"}, q \in Quantities,
     t \in {"MARKET", "LIMIT", "STOP"}}

\* main() with --close: close_position(symbol, order_type, price) (line 352)
MainCloseCalls ==
  {Call("main", TRUE, s, None, None, t, p, None, DEFAULT_RETRIES) :
     s \in {"BTCUSDT"}, t \in {"MARKET", "LIMIT"}, p \in Prices}

ClosePositionCalls ==
  {Call("close_position", FALSE, s, sd, q, t, p, None, r) :
     s \in {"BTCUSDT"}, sd \in {None} \cup {Some(x) : x \in Sides},
     q \in {None, Some(5)}, t \in {"MARKET", "LIMIT", "STOP"}, p \in Prices,
     r \in {DEFAULT_RETRIES}}

PlaceCalls ==
  UNION {{Call(fn, FALSE, "BTCUSDT", Some("BUY"), Some(5), TypeOf(fn), p, sp, r) :
            p \in IF fn = "place_market_order" THEN {None} ELSE Prices,
            sp \in IF fn = "place_stop_limit_order" THEN Prices ELSE {None},
            r \in Retries} : fn \in PlaceFns}

ValidateCalls ==
  {Call("validate_symbol", FALSE, "BTCUSDT", None, None, "", None, None, 0)}
    \cup {Call("validate_quantity", FALSE, "BTCUSDT", None, Some(q), "", None,
               None, 0) : q \in Quantities}

Calls ==
  MainOrderCalls \cup MainCloseCalls \cup ClosePositionCalls \cup PlaceCalls
    \cup ValidateCalls

(***************************************************************************)
(* The state.                                                             *)
(***************************************************************************)
VARIABLES
  call,         \* the entry point called and its arguments
  exchange,     \* the Gateway's listing of symbols
  pc,           \* where the program is
  submit,       \* the arguments of the running place_*_order call
  attempt,      \* the loop variable of place_*_order
  time_offset,  \* self.time_offset
  local_time,   \* the local clock, in ms since the call
  position,     \* close_position's local variable position
  trace,        \* the Gateway calls, sleeps and validation results so far
  orders,       \* the orders the Gateway has accepted
  result,       \* what the place_*_order call returned or raised
  ret           \* what the entry point returned or raised

vars ==
  <<call, exchange, pc, submit, attempt, time_offset, local_time, position,
    trace, orders, result, ret>>

NoSubmit ==
  [type |-> "", side |-> None, quantity |-> None, price |-> None,
   stop_price |-> None]

Submit(type, side, quantity, price, stop_price) ==
  [type |-> type, side |-> side, quantity |-> quantity, price |-> price,
   stop_price |-> stop_price]

Event(op, res, val) == [op |-> op, res |-> res, val |-> val, order |-> NoOrder]

EntryPoint(c) ==
  CASE c.fn = "main" -> "main"
    [] c.fn \in PlaceFns -> "loop"
    [] OTHER -> c.fn

Init ==
  /\ call \in Calls
  /\ exchange \in
       CASE call.fn \in {"validate_symbol", "validate_quantity"} -> ExchangeInfos(2)
         [] call.fn = "main" -> ExchangeInfos(1)
         [] OTHER -> {<<>>}
  \* the constructor has run sync_time (line 43)
  /\ time_offset \in {sync_time(resp) : resp \in TimeResponses}
  /\ pc = EntryPoint(call)
  /\ submit = IF call.fn \in PlaceFns
                THEN Submit(call.order_type, call.side, call.quantity,
                            call.price, call.stop_price)
                ELSE NoSubmit
  /\ attempt = 0
  /\ local_time = 0
  /\ position = NoPosition
  /\ trace = <<>>
  /\ orders = <<>>
  /\ result = Pending
  /\ ret = Pending

\* the entry point ends with res
Finish(res) ==
  /\ ret' = res
  /\ pc' = "done"

\* the place_*_order call ends with res, and with it the entry point
FinishSubmit(res) ==
  /\ result' = res
  /\ Finish(Outcome(call.fn, call.close, res))

(***************************************************************************)
(* main()                                                                 *)
(***************************************************************************)
\* lines 334-342: the time check; an exception ends main() at line 403
MainTimeCheck ==
  /\ pc = "main"
  /\ \E resp \in TimeResponses :
       /\ trace' = Append(trace, Event("get_server_time", resp.kind, resp.skew))
       /\ IF resp.kind = "ok"
            THEN /\ pc' = IF call.close THEN "main_close" ELSE "validate_symbol"
                 /\ ret' = ret
            ELSE Finish(Return("error"))
  /\ UNCHANGED <<call, exchange, submit, attempt, time_offset, local_time,
                 position, orders, result>>

\* lines 344-350: the position lookup of the closing flow
MainClose ==
  /\ pc = "main_close"
  /\ \E resp \in PositionResponses :
       /\ trace' = Append(trace, Event("futures_position_information", resp.kind, 0))
       /\ IF get_position(resp, call.symbol) = NoPosition
            THEN Finish(Return("no_position"))
            ELSE pc' = "close_position" /\ ret' = ret
  /\ UNCHANGED <<call, exchange, submit, attempt, time_offset, local_time,
                 position, orders, result>>

(***************************************************************************)
(* validate_symbol and validate_quantity, called directly or by main()    *)
(* (lines 370-377).                                                       *)
(***************************************************************************)
ValidateSymbol ==
  /\ pc = "validate_symbol"
  /\ \E resp \in InfoResponses :
       LET valid == validate_symbol(resp, exchange, call.symbol) IN
       /\ trace' = trace \o <<Event("futures_exchange_info", resp, 0),
                              Event("validate_symbol", valid.value, 0)>>
       /\ IF call.fn = "main"
            THEN IF MainAccepts(valid)
                   THEN pc' = "validate_quantity" /\ ret' = ret
                   ELSE Finish(MainResult(FALSE,
                          IF valid.kind = "raise" THEN valid
                                                  ELSE Return("invalid_symbol")))
            ELSE Finish(valid)
  /\ UNCHANGED <<call, exchange, submit, attempt, time_offset, local_time,
                 position, orders, result>>

ValidateQuantity ==
  /\ pc = "validate_quantity"
  /\ \E resp \in InfoResponses :
       LET valid == validate_quantity(resp, exchange, call.symbol,
                                      ParseFloat(The(call.quantity), Scale)) IN
       /\ trace' = trace \o <<Event("futures_exchange_info", resp, 0),
                              Event("validate_quantity", valid.value, 0)>>
       /\ IF call.fn = "main"
            THEN IF MainAccepts(valid)
                   \* lines 380-386
                   THEN /\ pc' = "loop"
                        /\ submit' = Submit(call.order_type, call.side,
                                            call.quantity, call.price,
                                            call.stop_price)
                        /\ ret' = ret
                   ELSE /\ Finish(MainResult(FALSE,
                             IF valid.kind = "raise" THEN valid
                                                     ELSE Return("invalid_quantity")))
                        /\ submit' = submit
            ELSE Finish(valid) /\ submit' = submit
  /\ UNCHANGED <<call, exchange, attempt, time_offset, local_time, position,
                 orders, result>>

(***************************************************************************)
(* close_position (lines 238-261)                                         *)
(***************************************************************************)
NoLookup == [kind |-> "none", positions |-> <<>>]

ClosePosition ==
  /\ pc = "close_position"
  /\ LET lookup == call.side = None \/ call.quantity = None IN
     \E resp \in IF lookup THEN PositionResponses ELSE {NoLookup} :
       LET p  == IF lookup THEN get_position(resp, call.symbol) ELSE NoPosition
           to == CloseDispatch(lookup, p, call.order_type, call.price)
       IN
       /\ trace' = IF lookup
                     THEN Append(trace, Event("futures_position_information",
                                              resp.kind, 0))
                     ELSE trace
       /\ position' = p
       /\ IF to = "ValueError"
            \* raised and caught before any place_*_order call
            THEN /\ Finish(Outcome(call.fn, call.close, Raise("ValueError")))
                 /\ UNCHANGED <<submit, result>>
            ELSE /\ submit' =
                      Submit(TypeOf(to),
                             IF call.side = None THEN Some(InferSide(p))
                                                 ELSE call.side,
                             IF call.quantity = None THEN Some(InferQuantity(p))
                                                     ELSE call.quantity,
                             call.price, None)
                 /\ pc' = "loop"
                 /\ UNCHANGED <<result, ret>>
  /\ UNCHANGED <<call, exchange, attempt, time_offset, local_time, orders>>

(***************************************************************************)
(* place_market_order, place_limit_order, place_stop_limit_order          *)
(***************************************************************************)
\* LoopHead making a first attempt whatever retries is
LoopHeadFirstAlways ==
  /\ pc = "loop"
  /\ IF attempt = 0 \/ attempt < call.retries
       THEN pc' = "sync_time" /\ UNCHANGED <<result, ret>>
       ELSE FinishSubmit(Return("None"))
  /\ UNCHANGED <<call, exchange, submit, attempt, time_offset, local_time,
                 position, trace, orders>>

\* lines 115, 145, 177: for attempt in range(retries); a loop that ends
\* without a return makes the function return None
LoopHead ==
  /\ pc = "loop"
  /\ IF attempt < call.retries
       THEN pc' = "sync_time" /\ UNCHANGED <<result, ret>>
       ELSE FinishSubmit(Return("None"))
  /\ UNCHANGED <<call, exchange, submit, attempt, time_offset, local_time,
                 position, trace, orders>>

\* SyncTime synchronizing before the first attempt only
SyncTimeFirstAttemptOnly ==
  /\ pc = "sync_time"
  /\ IF attempt = 0
       THEN \E resp \in TimeResponses :
              /\ time_offset' = sync_time(resp)
              /\ trace' = Append(trace, Event("get_server_time", resp.kind,
                                              resp.skew))
       ELSE UNCHANGED <<time_offset, trace>>
  /\ pc' = "create_order"
  /\ UNCHANGED <<call, exchange, submit, attempt, local_time, position, orders,
                 result, ret>>

\* lines 117, 147, 179: self.sync_time()
SyncTime ==
  /\ pc = "sync_time"
  /\ \E resp \in TimeResponses :
       /\ time_offset' = sync_time(resp)
       /\ trace' = Append(trace, Event("get_server_time", resp.kind, resp.skew))
  /\ pc' = "create_order"
  /\ UNCHANGED <<call, exchange, submit, attempt, local_time, position, orders,
                 result, ret>>

\* lines 119-133, 149-164, 181-197: futures_create_order and what follows
CreateOrder ==
  /\ pc = "create_order"
  /\ \E resp \in CreateResponses :
       LET req  == OrderRequest(submit.type, call.symbol, submit.side,
                                submit.quantity, submit.price,
                                submit.stop_price, local_time, time_offset)
           id   == Len(orders) + 1
           step == AfterCreate(resp, attempt, call.retries)
       IN
       /\ trace' = Append(trace,
                     [op |-> "futures_create_order", res |-> resp.kind,
                      val |-> IF resp.kind = "ok" THEN id ELSE resp.code,
                      order |-> req])
       /\ orders' = IF resp.kind = "ok" THEN Append(orders, req) ELSE orders
       /\ CASE step = "return" -> FinishSubmit(ReturnOrder(id))
            [] step = "sleep"  -> pc' = "sleep" /\ UNCHANGED <<result, ret>>
            [] step = "fail"   -> FinishSubmit(Return("None"))
            [] OTHER           -> FinishSubmit(Raise(resp.kind))
  /\ UNCHANGED <<call, exchange, submit, attempt, time_offset, local_time,
                 position>>

\* Sleep without counting the attempt
SleepSameAttempt ==
  /\ pc = "sleep"
  /\ local_time' = local_time + SLEEP_MS
  /\ trace' = Append(trace, Event("sleep", "", 0))
  /\ pc' = "loop"
  /\ UNCHANGED <<call, exchange, submit, attempt, time_offset, position,
                 orders, result, ret>>

\* lines 130-131: time.sleep(1); continue
Sleep ==
  /\ pc = "sleep"
  /\ local_time' = local_time + SLEEP_MS
  /\ attempt' = attempt + 1
  /\ trace' = Append(trace, Event("sleep", "", 0))
  /\ pc' = "loop"
  /\ UNCHANGED <<call, exchange, submit, time_offset, position, orders, result,
                 ret>>

Next ==
  \/ MainTimeCheck
  \/ MainClose
  \/ ValidateSymbol
  \/ ValidateQuantity
  \/ ClosePosition
  \/ LoopHead
  \/ SyncTime
  \/ CreateOrder
  \/ Sleep

Spec == Init /\ [][Next]_vars

(***************************************************************************)
(* Reading the trace.                                                     *)
(***************************************************************************)
IsCreate(e) == e.op = "futures_create_order"
IsSleep(e) == e.op = "sleep"
Creates == SelectSeq(trace, IsCreate)
Sleeps == SelectSeq(trace, IsSleep)

\* the Gateway rejected the order with the invalid-timestamp code
TimestampRejected(e) == e.res = "BinanceAPIException" /\ e.val = TIMESTAMP_ERROR
\* the Gateway rejected the order with another code
OtherwiseRejected(e) == e.res = "BinanceAPIException" /\ e.val # TIMESTAMP_ERROR
\* the first n order-create calls were all rejected for their timestamp
Rejections(n) == \A i \in 1..n : TimestampRejected(Creates[i])

InSubmitLoop == pc \in {"loop", "sync_time", "create_order", "sleep"}

(***************************************************************************)
(* C1: once an order-create call has succeeded, the submit call makes no  *)
(* further call: the success is the last event of the run, it is the only *)
(* accepted order, and its order is what place_*_order returns.           *)
(***************************************************************************)
C1_NoRetryAfterSuccess ==
  \A i \in DOMAIN trace :
    (IsCreate(trace[i]) /\ trace[i].res = "ok") =>
      /\ i = Len(trace)
      /\ Len(orders) = 1
      /\ result = ReturnOrder(trace[i].val)
      /\ pc = "done"

\* an order accepted on the second attempt of three
C1_Witness ==
  /\ call.fn \in PlaceFns /\ call.retries = 3
  /\ Len(Creates) = 2 /\ Creates[2].res = "ok"
  /\ pc = "done"

(***************************************************************************)
(* C2: when the first k order-create calls are rejected for their         *)
(* timestamp and k < retries, a further attempt follows; when call k+1 is *)
(* accepted, place_*_order returns that order after exactly k+1 calls and *)
(* k sleeps.                                                              *)
(***************************************************************************)
C2_RetryUntilAccepted ==
  LET n == Len(Creates) IN
  /\ (n >= 1 /\ Rejections(n) /\ n < call.retries) =>
       (InSubmitLoop /\ result = Pending)
  /\ (n >= 1 /\ Rejections(n - 1) /\ Creates[n].res = "ok") =>
       /\ pc = "done"
       /\ result = ReturnOrder(Creates[n].val)
       /\ Len(Sleeps) = n - 1
       /\ n <= call.retries

\* two rejections, then the third call accepted
C2_Witness ==
  /\ Len(Creates) = 3 /\ Rejections(2) /\ Creates[3].res = "ok"
  /\ Len(Sleeps) = 2
  /\ result.value = "order"

(***************************************************************************)
(* C3: an order-create call rejected with a code other than the           *)
(* invalid-timestamp code is the last thing place_*_order does, and it    *)
(* returns None; when it is the first call, there is exactly one call and *)
(* no sleep.                                                              *)
(***************************************************************************)
C3_NoRetryOnOtherCodes ==
  \A i \in DOMAIN trace :
    (IsCreate(trace[i]) /\ OtherwiseRejected(trace[i])) =>
      /\ i = Len(trace)
      /\ pc = "done"
      /\ result = Return("None")
      /\ OtherwiseRejected(Creates[1]) => (Len(Creates) = 1 /\ Len(Sleeps) = 0)

\* a first call rejected with another code although attempts remain
C3_Witness ==
  /\ call.retries = 3 /\ attempt = 0
  /\ Len(Creates) = 1 /\ OtherwiseRejected(Creates[1])
  /\ pc = "done"

(***************************************************************************)
(* C4: when every order-create call was rejected for its timestamp, the   *)
(* finished place_*_order has made exactly retries calls and retries - 1  *)
(* sleeps, the last event being the last rejection, and returns None.     *)
(***************************************************************************)
C4_Exhausted ==
  LET n == Len(Creates) IN
  (pc = "done" /\ n >= 1 /\ Rejections(n)) =>
    /\ n = call.retries
    /\ Len(Sleeps) = n - 1
    /\ IsCreate(trace[Len(trace)])
    /\ result = Return("None")

\* three attempts, all rejected for their timestamp
C4_Witness ==
  /\ call.retries = 3 /\ Len(Creates) = 3 /\ Rejections(3)
  /\ pc = "done"

(***************************************************************************)
(* The lot-size constraints the Gateway lists for a symbol, in decimals.  *)
(***************************************************************************)
Listed(symbol) == {i \in DOMAIN exchange : exchange[i].symbol = symbol}
FirstListed(symbol) ==
  exchange[CHOOSE i \in Listed(symbol) : \A j \in Listed(symbol) : i <= j]
HasLotSize(symbol) == Listed(symbol) # {} /\ FirstListed(symbol).filters.present
LotSizeOf(symbol) == FirstListed(symbol).filters

IsValidation(e) == e.op \in {"validate_symbol", "validate_quantity"}

(***************************************************************************)
(* C5: every quantity that main() sends to the Gateway in an order-create *)
(* call, in the placement flow and in the closing flow, lies within       *)
(* [minQty, maxQty] of the symbol's lot size and is minQty plus a         *)
(* multiple of stepSize.                                                  *)
(***************************************************************************)
C5_SubmittedQuantityInLot ==
  (call.fn = "main" /\ HasLotSize(call.symbol)) =>
    \A i \in DOMAIN Creates :
      LET lot == LotSizeOf(call.symbol)
          q   == The(Creates[i].order.quantity)
      IN /\ lot.minQty <= q /\ q <= lot.maxQty
         /\ (q - lot.minQty) % lot.stepSize = 0

(***************************************************************************)
(* C6: in the placement flow of main() every order-create call comes      *)
(* after a symbol validation that returned True and, after that, a        *)
(* quantity validation that returned True; after a validation that did    *)
(* not return True there is no order-create call.                         *)
(***************************************************************************)
C6_ValidatedBeforeCreate ==
  (call.fn = "main" /\ ~call.close) =>
    /\ \A i \in DOMAIN trace :
         IsCreate(trace[i]) =>
           \E j, k \in 1..i :
             /\ j < k /\ k < i
             /\ trace[j].op = "validate_symbol" /\ trace[j].res = "True"
             /\ trace[k].op = "validate_quantity" /\ trace[k].res = "True"
    /\ (\E j \in DOMAIN trace : IsValidation(trace[j]) /\ trace[j].res # "True")
         => Creates = <<>>

\* the placement flow has sent an order to the Gateway
C6_Witness ==
  /\ call.fn = "main" /\ ~call.close
  /\ Creates # <<>>

(***************************************************************************)
(* C7: validate_symbol and validate_quantity never raise, and return      *)
(* False whenever the exchange-metadata call fails.                       *)
(***************************************************************************)
C7_ValidationFailsClosed ==
  \A i \in DOMAIN trace :
    IsValidation(trace[i]) =>
      /\ trace[i].res \in {"True", "False"}
      /\ trace[i - 1].res # "ok" => trace[i].res = "False"

(***************************************************************************)
(* C8: validate_quantity, given the metadata, returns True exactly when   *)
(* the symbol is listed and minQty <= quantity <= maxQty and quantity is  *)
(* a multiple of stepSize.                                                *)
(***************************************************************************)
C8_QuantityValidExactly ==
  \A i \in DOMAIN trace :
    (trace[i].op = "validate_quantity" /\ trace[i - 1].res = "ok"
       /\ (Listed(call.symbol) # {} => HasLotSize(call.symbol))) =>
      (trace[i].res = "True" <=>
         /\ HasLotSize(call.symbol)
         /\ LET lot == LotSizeOf(call.symbol)
                q   == The(call.quantity)
            IN /\ lot.minQty <= q /\ q <= lot.maxQty
               /\ q % lot.stepSize = 0)

(***************************************************************************)
(* C9: validate_symbol, given the metadata, returns True exactly when     *)
(* some listed entry has the requested symbol and the status TRADING, and *)
(* False otherwise.                                                        *)
(***************************************************************************)
C9_TradableExactly ==
  \A i \in DOMAIN trace :
    (trace[i].op = "validate_symbol" /\ trace[i - 1].res = "ok") =>
      trace[i].res =
        IF \E j \in DOMAIN exchange :
             exchange[j].symbol = call.symbol /\ exchange[j].status = "TRADING"
          THEN "True" ELSE "False"

\* the symbol is listed, but not as TRADING, and validate_symbol returns False
C9_Witness ==
  /\ call.fn = "validate_symbol" /\ pc = "done"
  /\ trace[1].res = "ok"
  /\ Listed(call.symbol) # {}
  /\ ret = Return("False")

(***************************************************************************)
(* C10: close_position with order_type LIMIT and no price makes no        *)
(* Gateway call at all and returns None.                                   *)
(***************************************************************************)
C10_LimitCloseWithoutPrice ==
  (call.fn = "close_position" /\ call.order_type = "LIMIT" /\ call.price = None) =>
    /\ trace = <<>>
    /\ pc = "done" => ret = Return("None")

(***************************************************************************)
(* close_position called without side and without quantity: both are     *)
(* taken from the position that get_position found.                       *)
(***************************************************************************)
Closing == call.fn = "close_position" \/ (call.fn = "main" /\ call.close)
InfersBoth == Closing /\ call.side = None /\ call.quantity = None
Abs(a) == IF a < 0 THEN -a ELSE a

(***************************************************************************)
(* C11: close_position called without side and without quantity, for a   *)
(* symbol whose position has the signed amount a # 0, sends only orders   *)
(* of side SELL when a > 0 and BUY when a < 0, of quantity |a|; a MARKET  *)
(* close does send one.  The order never has the direction of the        *)
(* position.                                                              *)
(***************************************************************************)
C11_CloseOppositeFullAmount ==
  (InfersBoth /\ position # NoPosition) =>
    LET a == position.positionAmt IN
    /\ a # 0
    /\ \A i \in DOMAIN Creates :
         /\ Creates[i].order.side = Some(IF a > 0 THEN "SELL" ELSE "BUY")
         /\ Creates[i].order.quantity = Some(Abs(a))
         /\ Creates[i].order.symbol = position.symbol
    /\ (pc = "done" /\ call.order_type = "MARKET") => Creates # <<>>

\* a short position of 2.5 is closed by buying 2.5
C11_Witness ==
  /\ InfersBoth
  /\ position.positionAmt = -25
  /\ Len(Creates) = 1
  /\ Creates[1].order.side = Some("BUY")
  /\ Creates[1].order.quantity = Some(25)
  /\ Creates[1].res = "ok"

\* close_position has to look the position up, and has done so
Infers == Closing /\ (call.side = None \/ call.quantity = None)
IsLookup(e) == e.op = "futures_position_information"
Lookups == SelectSeq(trace, IsLookup)
\* main() looks the position up itself before it calls close_position
LookedUp == Len(Lookups) = IF call.fn = "main" THEN 2 ELSE 1

(***************************************************************************)
(* C12: when close_position has to infer side or quantity and the lookup *)
(* finds no open position of the symbol (no entry, or only entries of     *)
(* amount zero), there is no order-create call and close_position returns *)
(* None; no close ever sends an order of quantity zero.                   *)
(***************************************************************************)
C12_NoPositionNoOrder ==
  /\ (Infers /\ LookedUp /\ position = NoPosition) =>
       /\ Creates = <<>>
       /\ orders = <<>>
       /\ pc = "done"
       /\ ret = IF call.fn = "main" THEN Return("close_failed")
                                    ELSE Return("None")
  /\ Closing => \A i \in DOMAIN Creates : Creates[i].order.quantity # Some(0)

\* the Gateway answers the position query, without an open position of the
\* symbol
C12_Witness ==
  /\ call.fn = "close_position" /\ call.side = None
  /\ Len(Lookups) = 1 /\ Lookups[1].res = "ok"
  /\ position = NoPosition
  /\ ret = Return("None")

\* the calls of sync_time by place_*_order; the first get_server_time call of
\* main() is its own time check (line 334)
IsSync(i) ==
  /\ i \in DOMAIN trace
  /\ trace[i].op = "get_server_time"
  /\ i >= IF call.fn = "main" THEN 2 ELSE 1
FailedSync(i) == IsSync(i) /\ trace[i].res = "error"
LastSync(i) == IsSync(i) /\ \A j \in (i + 1)..Len(trace) : ~IsSync(j)

(***************************************************************************)
(* C13: after a sync_time whose get_server_time call failed, the offset   *)
(* is 0 until the next sync, whatever it was before; nothing is raised,   *)
(* and place_*_order goes on to the futures_create_order call of the same *)
(* attempt.                                                               *)
(***************************************************************************)
C13_FailedSyncDegrades ==
  \A i \in DOMAIN trace :
    FailedSync(i) =>
      /\ LastSync(i) => time_offset = 0
      /\ IF i = Len(trace)
           THEN pc = "create_order" /\ result = Pending /\ ret = Pending
           ELSE IsCreate(trace[i + 1])

\* the first sync set the offset to 1.5 s, the sync of the second attempt
\* fails, and the second order-create call is made
C13_Witness ==
  /\ call.fn \in PlaceFns
  /\ Len(trace) = 5
  /\ trace[1].op = "get_server_time" /\ trace[1].res = "ok" /\ trace[1].val = 1500
  /\ FailedSync(4)
  /\ IsCreate(trace[5])
  /\ time_offset = 0

(***************************************************************************)
(* C14: place_limit_order called without a price, and                     *)
(* place_stop_limit_order called without a price or without a stop price, *)
(* make no Gateway call at all (no get_server_time, no                    *)
(* futures_create_order) and return None.                                 *)
(***************************************************************************)
C14_MissingFieldNoGatewayCall ==
  (/\ call.fn \in {"place_limit_order", "place_stop_limit_order"}
   /\ \/ call.price = None
      \/ call.fn = "place_stop_limit_order" /\ call.stop_price = None) =>
    /\ trace = <<>>
    /\ pc = "done" => ret = Return("None")

\* the positions of the order-create calls in the trace
CreateAt == {i \in DOMAIN trace : IsCreate(trace[i])}
IsTimeCall(i) == i \in DOMAIN trace /\ trace[i].op = "get_server_time"

(***************************************************************************)
(* C15: in a place_*_order call every futures_create_order call comes     *)
(* directly after one sync_time call, the first attempt included; from    *)
(* one order-create call to the next there is exactly one sleep and then  *)
(* exactly one sync_time; a sleep comes only directly after an            *)
(* order-create call rejected for its timestamp.                          *)
(***************************************************************************)
C15_SyncCreateSleepOrder ==
  /\ \A i \in CreateAt :
       /\ IsSync(i - 1)
       /\ ~IsTimeCall(i - 2)
  /\ \A i, k \in CreateAt :
       (i < k /\ \A j \in (i + 1)..(k - 1) : j \notin CreateAt) =>
         /\ k = i + 3
         /\ IsSleep(trace[i + 1])
         /\ IsSync(i + 2)
  /\ \A i \in DOMAIN trace :
       IsSleep(trace[i]) =>
         /\ i - 1 \in CreateAt /\ TimestampRejected(trace[i - 1])
         /\ i < Len(trace) => IsSync(i + 1)

\* three attempts: sync, create, sleep, sync, create, sleep, sync, create
C15_Witness ==
  /\ call.fn \in PlaceFns
  /\ Len(trace) = 8
  /\ CreateAt = {2, 5, 8}
  /\ IsSleep(trace[3]) /\ IsSleep(trace[6])

(***************************************************************************)
(* The states of the executor's loop: the loop head (Idle), sync_time     *)
(* (Syncing), futures_create_order (Submitting), the sleep (RetryWait),   *)
(* and the return of the order (Succeeded) or of None (Failed).           *)
(***************************************************************************)
Succeeded == pc = "done" /\ result.kind = "return" /\ result.value = "order"
Failed == pc = "done" /\ result = Return("None")
\* every futures_create_order call so far was answered by the Gateway, with
\* an order or with an error code
CreatesAnswered ==
  \A i \in CreateAt : trace[i].res \in {"ok", "BinanceAPIException"}

\* a bound on the steps that a place_*_order call still takes: four steps
\* for each attempt left, less the steps of the running attempt
Phase ==
  CASE pc = "loop" -> 0
    [] pc = "sync_time" -> 1
    [] pc = "create_order" -> 2
    [] pc = "sleep" -> 3
    [] OTHER -> 0
StepsLeft ==
  IF ~InSubmitLoop THEN 0
  ELSE 4 * (IF attempt < call.retries THEN call.retries - attempt ELSE 0)
         + 4 - Phase

\* the counts of calls and sleeps, and how a finished call ends
C16_Bounded ==
  InSubmitLoop \/ result # Pending =>
    /\ call.retries >= 1 =>
         /\ Len(Creates) <= call.retries
         /\ Len(Sleeps) <= call.retries - 1
         /\ Len(Sleeps) <= Len(Creates)
    /\ (pc = "done" /\ call.retries >= 1 /\ CreatesAnswered) =>
         /\ Creates # <<>>
         /\ IF Creates[Len(Creates)].res = "ok" THEN Succeeded ELSE Failed
    /\ pc = "sleep" => attempt + 1 < call.retries
    /\ InSubmitLoop => ENABLED Next

\* the transitions of the loop
C16_Step ==
  /\ pc = "done" => FALSE
  /\ pc = "loop" =>
       \/ pc' = "sync_time"
       \/ pc' = "done" /\ call.retries <= 0
  /\ pc = "sync_time" => pc' = "create_order"
  /\ pc = "create_order" => pc' \in {"sleep", "done"}
  /\ pc' = "sleep" =>
       /\ pc = "create_order"
       /\ TimestampRejected(trace'[Len(trace')])
       /\ attempt < call.retries - 1
  /\ pc = "sleep" => pc' = "loop" /\ attempt' = attempt + 1
  /\ InSubmitLoop => StepsLeft' < StepsLeft

(***************************************************************************)
(* C16: a place_*_order call with retries >= 1 makes at most retries      *)
(* order-create calls and at most retries - 1 sleeps; its steps follow    *)
(* loop head -> sync -> create -> (sleep -> loop head | end); the sleep   *)
(* is entered only from an order-create call rejected for its timestamp   *)
(* with attempts remaining and leads to the next sync; the end is final;  *)
(* when the Gateway answers each order-create call with an order or an    *)
(* error code the call ends with the order or with None; and the call     *)
(* always ends: while it runs a step is possible, and each step lowers    *)
(* the bound StepsLeft on the steps that remain.                          *)
(***************************************************************************)
C16_StateMachineTerminates ==
  /\ []C16_Bounded
  /\ [][C16_Step]_vars

\* the last of three attempts rejected for its timestamp: Failed after three
\* order-create calls and two sleeps
C16_Witness ==
  /\ call.fn \in PlaceFns /\ call.retries = 3
  /\ Failed
  /\ Len(Creates) = 3 /\ Len(Sleeps) = 2
  /\ TimestampRejected(Creates[3])

\* the local clock at event i: it advances by the sleeps
RECURSIVE SleepsBefore(_)
SleepsBefore(i) ==
  IF i <= 1 THEN 0
  ELSE SleepsBefore(i - 1) + IF IsSleep(trace[i - 1]) THEN 1 ELSE 0
LocalTimeAt(i) == SLEEP_MS * SleepsBefore(i)
\* the offset that the sync_time call at event i produced
OffsetOfSync(i) == IF trace[i].res = "ok" THEN trace[i].val ELSE 0

(***************************************************************************)
(* C17: every futures_create_order request, of a market, a limit or a    *)
(* stop-limit order, carries the timestamp local time + offset, the       *)
(* offset being the one that the sync_time call of the same attempt       *)
(* produced (0 when that sync failed).                                    *)
(***************************************************************************)
C17_TimestampFromSameSync ==
  \A i \in CreateAt :
    /\ IsSync(i - 1)
    /\ trace[i].order.timestamp = Some(LocalTimeAt(i) + OffsetOfSync(i - 1))

\* the Gateway call at event i failed otherwise than by a rejection of the
\* API (a transport error)
TransportFailure(i) == trace[i].res = "RequestException"

(***************************************************************************)
(* C18: close_position never raises: whatever the Gateway does, a failed  *)
(* position query and an order-create call failing otherwise than by an   *)
(* API rejection included, it returns the order or None.  A               *)
(* place_*_order call made directly raises that failure of order-create,  *)
(* and makes no further attempt.                                          *)
(***************************************************************************)
C18_CloseCatchesPlaceRaises ==
  /\ call.fn = "close_position" =>
       /\ ret.kind # "raise"
       /\ pc = "done" =>
            /\ ret.kind = "return" /\ ret.value \in {"order", "None"}
            /\ (\E i \in DOMAIN trace :
                  IsLookup(trace[i]) /\ trace[i].res = "error")
                 => ret = Return("None")
            /\ (\E i \in CreateAt : TransportFailure(i)) => ret = Return("None")
  /\ call.fn \in PlaceFns =>
       \A i \in CreateAt :
         TransportFailure(i) =>
           /\ i = Len(trace)
           /\ pc = "done"
           /\ ret = Raise("RequestException")

\* the order-create call of a close fails with a transport error, and
\* close_position returns None
C18_Witness ==
  /\ call.fn = "close_position" /\ pc = "done"
  /\ Creates # <<>>
  /\ TransportFailure(Len(trace))
  /\ result = Raise("RequestException")
  /\ ret = Return("None")

\* a place_*_order call whose retries argument allows no attempt
NoAttempts == call.fn \in PlaceFns /\ call.retries <= 0

(***************************************************************************)
(* C19: a place_*_order call with retries <= 0 makes no Gateway call      *)
(* (no get_server_time, no futures_create_order) and no sleep, leaves     *)
(* self.time_offset as it was, and returns None.                          *)
(***************************************************************************)
C19_NoAttemptsNoEffect ==
  /\ [](NoAttempts =>
          /\ trace = <<>>
          /\ orders = <<>>
          /\ local_time = 0
          /\ pc \in {"loop", "done"}
          /\ pc = "done" => ret = Return("None") /\ result = Return("None"))
  /\ [][NoAttempts =>
          /\ time_offset' = time_offset
          /\ pc' = "done"]_vars

\* retries = 0: None is returned, the offset of the constructor's sync is
\* still there
C19_Witness ==
  /\ NoAttempts /\ call.retries = 0
  /\ pc = "done"
  /\ ret = Return("None")
  /\ time_offset = 1500
  /\ trace = <<>>

====
